---- MODULE Spec2Model ----
(***************************************************************************)
(* Fanfiction Explorer: the index manager (app/db_indexes.py) and the      *)
(* query engine (app/utils.py) with its two search front ends              *)
(* (app/api.py, app/routes.py), as state machines over one SQLite file.    *)
(*                                                                         *)
(* Spec        the index manager: one maintenance process calling          *)
(*             create_indexes / remove_indexes, statement by statement.    *)
(* SpecOps     the same process calling any operation of DatabaseIndexer.  *)
(* SpecCli     manage.py: one command line run down to its exit status.    *)
(* SpecConc    two maintenance processes on the same database file.        *)
(* SpecSearch  the query engine: search requests against a dataset         *)
(*             snapshot drawn in the initial state.                        *)
(* SpecMatch   the query engine on text criteria.                          *)
(* SpecStats   the statistics queries behind their routes.                 *)
(* SpecMaint   search requests while the index manager works.              *)
(***************************************************************************)
EXTENDS Integers, Sequences, FiniteSets, TLC

VARIABLES
    sqlite_master,    \* index name -> definition stored for it on metadata_full
    pc,               \* per maintenance process: the statement it is at
    op,               \* per process: the call in progress and its flag
    existing_indexes, \* per process: local of create_indexes / remove_indexes
    results,          \* per process: the dict the call builds and returns
    cur,              \* per process: position of the for loop
    trace,            \* per process: what the call has done so far, in order
    before,           \* per process: sqlite_master when the call was made
    prev,             \* per process: summary of the call made before this one
    rows,             \* metadata_full, in rowid order
    scan_order,       \* order in which the current query plan visits rowids
    request,          \* the HTTP request being served
    response,         \* what the handler answered
    g,                \* flask.g of the request: the connection stored as g.db
    connections,      \* the database connections that are open
    ended,            \* the request whose context was torn down last
    conn,             \* per process: the connections its call opened and has not closed
    cli               \* manage.py: the command line, its inputs and its exit

idxVars == <<sqlite_master, pc, op, existing_indexes, results, cur, trace, before, prev,
             conn, cli>>
qryVars == <<rows, scan_order, request, response, g, connections, ended>>
vars == <<sqlite_master, pc, op, existing_indexes, results, cur, trace, before, prev,
          rows, scan_order, request, response, g, connections, ended, conn, cli>>

----------------------------------------------------------------------------
(* Bounds of the model *)

\* how many entries of the catalog the model keeps: idx_word_count, which a
\* search by word count can use, and the first CatalogLen - 1 entries of
\* self.indexes
CatalogLen == 2

\* how many rows metadata_full has at most
MaxRows == 2

----------------------------------------------------------------------------
(* The index catalog and the names that can be in sqlite_master *)

\* DatabaseIndexer.__init__: the names of self.indexes, in order
AllIndexNames ==
    << "idx_author", "idx_category", "idx_language", "idx_status", "idx_rating",
       "idx_word_count", "idx_chapter_count", "idx_updated", "idx_published",
       "idx_title_text", "idx_genre_text", "idx_category_status",
       "idx_author_updated", "idx_category_wordcount", "idx_language_status",
       "idx_rating_wordcount", "idx_author_count", "idx_category_count",
       "idx_search_filter" >>

\* the entries kept, in the order of self.indexes
Catalog ==
    SelectSeq(AllIndexNames,
              LAMBDA n : n = "idx_word_count"
                         \/ \E k \in 1..(CatalogLen - 1) : AllIndexNames[k] = n)

CatalogNames == {Catalog[k] : k \in 1..Len(Catalog)}

\* an index on metadata_full that the catalog does not know
ForeignNames == {"idx_custom"}

\* an index SQLite keeps for itself; its name matches LIKE 'sqlite_%'
InternalNames == {"sqlite_autoindex_metadata_full_1"}

\* the order in which sqlite_master is listed
MasterOrder == Catalog \o <<"idx_custom", "sqlite_autoindex_metadata_full_1">>

Names == CatalogNames \cup ForeignNames \cup InternalNames

Procs == {"m1"}

EmptyResults == [created |-> <<>>, skipped |-> <<>>, removed |-> <<>>, errors |-> <<>>]

NoOp == [kind |-> "none", flag |-> FALSE]

NoPrev == [kind |-> "none", flag |-> FALSE, returned |-> FALSE, clean |-> FALSE]

\* manage.py is not running
NoCli == [pc |-> "none"]

ToSet(s) == {s[k] : k \in 1..Len(s)}

----------------------------------------------------------------------------
(* DatabaseIndexer *)

\* name NOT LIKE 'sqlite_%'
NotLikeSqlite(name) == name \notin InternalNames

check_existing_indexes_Inverted(master) ==
    {n \in DOMAIN master : master[n] # "absent" /\ ~NotLikeSqlite(n)}

\* check_existing_indexes: the SELECT on sqlite_master
check_existing_indexes(master) ==
    {n \in DOMAIN master : master[n] # "absent" /\ NotLikeSqlite(n)}

\* the listing as the list the loop of remove_indexes walks
ListOf(S) == SelectSeq(MasterOrder, LAMBDA n : n \in S)

\* create_indexes: 'if index_name in existing_indexes and not force'
ShouldSkip(index_name, existing, force) == index_name \in existing /\ ~force

\* CREATE INDEX IF NOT EXISTS <name> ON metadata_full(...)
ExecCreate(master, index_name) ==
    IF master[index_name] = "absent"
    THEN [master EXCEPT ![index_name] = "catalog"]
    ELSE master

ExecDrop_Keep(master, index_name) == master

\* DROP INDEX IF EXISTS <name>
ExecDrop(master, index_name) == [master EXCEPT ![index_name] = "absent"]

AfterCreateError_Raises == "raised"

\* create_indexes: 'except sqlite3.Error' records the error; the loop goes on
AfterCreateError == "loop"

AfterLoop_AnalyzeIfCreated(kind, res) ==
    IF kind = "create" /\ res.created # <<>> THEN "analyze" ELSE "close"

\* after the first conn.commit(): create_indexes runs ANALYZE, remove_indexes closes
AfterLoop(kind, res) == IF kind = "create" THEN "analyze" ELSE "close"

Proceeds_Always(confirm) == TRUE

\* remove_indexes: 'if not confirm: return'
Proceeds(confirm) == confirm

Targets_CatalogOnly(existing) == existing \cap CatalogNames

\* remove_indexes: 'for index_name in existing_indexes'
Targets(existing) == existing

\* sqlite3.connect: one more connection is open, named after the function
\* whose local 'conn' holds it
sqlite3_connect(conns, owner) == conns \cup {owner}

\* conn.close()
close(conns, owner) == conns \ {owner}

Stmt(kind, name, ok, effect) == [stmt |-> kind, name |-> name, ok |-> ok, effect |-> effect]

Summary(p) ==
    [kind |-> op[p].kind, flag |-> op[p].flag,
     returned |-> pc[p] = "returned", clean |-> results[p].errors = <<>>]

\* create_indexes(force) is entered: the locals of a fresh call
BeginCreate(p, force) ==
    /\ pc[p] \in {"idle", "returned", "raised"}
    /\ op' = [op EXCEPT ![p] = [kind |-> "create", flag |-> force]]
    /\ prev' = [prev EXCEPT ![p] = Summary(p)]
    /\ results' = [results EXCEPT ![p] = EmptyResults]
    /\ existing_indexes' = [existing_indexes EXCEPT ![p] = {}]
    /\ cur' = [cur EXCEPT ![p] = 1]
    /\ trace' = [trace EXCEPT ![p] = <<>>]
    /\ before' = [before EXCEPT ![p] = sqlite_master]
    /\ conn' = [conn EXCEPT ![p] = {}]
    /\ pc' = [pc EXCEPT ![p] = "check"]
    /\ UNCHANGED <<sqlite_master, rows, scan_order, request, response,
                   g, connections, ended>>

\* remove_indexes(confirm) is entered; without confirm it returns at once
BeginRemove(p, confirm) ==
    /\ pc[p] \in {"idle", "returned", "raised"}
    /\ op' = [op EXCEPT ![p] = [kind |-> "remove", flag |-> confirm]]
    /\ pc' = [pc EXCEPT ![p] = IF Proceeds(confirm) THEN "check" ELSE "returned"]
    /\ prev' = [prev EXCEPT ![p] = Summary(p)]
    /\ results' = [results EXCEPT ![p] = EmptyResults]
    /\ existing_indexes' = [existing_indexes EXCEPT ![p] = {}]
    /\ cur' = [cur EXCEPT ![p] = 1]
    /\ trace' = [trace EXCEPT ![p] = <<>>]
    /\ before' = [before EXCEPT ![p] = sqlite_master]
    /\ conn' = [conn EXCEPT ![p] = {}]
    /\ UNCHANGED <<sqlite_master, rows, scan_order, request, response,
                   g, connections, ended>>

\* a call of create_indexes(force) begins
CallCreate(p) ==
    /\ \E force \in BOOLEAN : BeginCreate(p, force)
    /\ UNCHANGED cli

\* a call of remove_indexes(confirm) begins
CallRemove(p) ==
    /\ \E confirm \in BOOLEAN : BeginRemove(p, confirm)
    /\ UNCHANGED cli

\* existing_indexes = self.check_existing_indexes(); the query may raise
CheckExisting(p) ==
    /\ pc[p] = "check"
    /\ \E ok \in BOOLEAN :
          /\ trace' = [trace EXCEPT ![p] = Append(@, Stmt("SELECT", "sqlite_master", ok, "none"))]
          /\ conn' = [conn EXCEPT ![p] =
                IF ok THEN close(sqlite3_connect(@, "check_existing_indexes"), "check_existing_indexes")
                ELSE sqlite3_connect(@, "check_existing_indexes")]
          /\ IF ok
             THEN /\ existing_indexes' =
                        [existing_indexes EXCEPT ![p] = check_existing_indexes(sqlite_master)]
                  /\ pc' = [pc EXCEPT ![p] =
                        IF op[p].kind = "remove" /\ check_existing_indexes(sqlite_master) = {}
                        THEN "returned" ELSE "connect"]
             ELSE /\ UNCHANGED existing_indexes
                  /\ pc' = [pc EXCEPT ![p] = "raised"]
    /\ UNCHANGED <<sqlite_master, op, results, cur, before, prev,
                   rows, scan_order, request, response, g, connections, ended, cli>>

\* conn = self.connect(); the PRAGMAs may raise
Connect(p) ==
    /\ pc[p] = "connect"
    /\ \E ok \in BOOLEAN :
          /\ trace' = [trace EXCEPT ![p] = Append(@, Stmt("PRAGMA", "journal_mode", ok, "none"))]
          /\ conn' = [conn EXCEPT ![p] = sqlite3_connect(@, op[p].kind)]
          /\ pc' = [pc EXCEPT ![p] = IF ok THEN "loop" ELSE "raised"]
    /\ UNCHANGED <<sqlite_master, op, existing_indexes, results, cur, before, prev,
                   rows, scan_order, request, response, g, connections, ended, cli>>

LoopExit_Early(p, n) == IF cur[p] + 1 >= n THEN "commit" ELSE "loop"

\* the for loop is left after its last item
LoopExit(p, n) == IF cur[p] + 1 > n THEN "commit" ELSE "loop"

\* one iteration of 'for i, index_config in enumerate(self.indexes, 1)'
CreateStep(p) ==
    /\ pc[p] = "loop"
    /\ op[p].kind = "create"
    /\ cur[p] <= Len(Catalog)
    /\ LET index_name == Catalog[cur[p]] IN
       IF ShouldSkip(index_name, existing_indexes[p], op[p].flag)
       THEN /\ results' = [results EXCEPT ![p].skipped = Append(@, index_name)]
            /\ trace' = [trace EXCEPT ![p] = Append(@, Stmt("SKIP", index_name, TRUE, "none"))]
            /\ pc' = [pc EXCEPT ![p] = LoopExit(p, Len(Catalog))]
            /\ UNCHANGED sqlite_master
       ELSE \E ok \in BOOLEAN :
            IF ok
            THEN /\ sqlite_master' = ExecCreate(sqlite_master, index_name)
                 /\ trace' = [trace EXCEPT ![p] = Append(@,
                       Stmt("CREATE", index_name, TRUE,
                            IF ExecCreate(sqlite_master, index_name) = sqlite_master
                            THEN "none" ELSE "built"))]
                 /\ results' = [results EXCEPT ![p].created = Append(@, index_name)]
                 /\ pc' = [pc EXCEPT ![p] = LoopExit(p, Len(Catalog))]
            ELSE /\ trace' = [trace EXCEPT ![p] = Append(@,
                       Stmt("CREATE", index_name, FALSE, "none"))]
                 /\ results' = [results EXCEPT ![p].errors = Append(@, index_name)]
                 /\ pc' = [pc EXCEPT ![p] =
                       IF AfterCreateError = "loop"
                       THEN LoopExit(p, Len(Catalog)) ELSE AfterCreateError]
                 /\ UNCHANGED sqlite_master
    /\ cur' = [cur EXCEPT ![p] = @ + 1]
    /\ UNCHANGED <<conn, op, existing_indexes, before, prev, rows, scan_order, request, response,
                   g, connections, ended, cli>>

\* one iteration of 'for index_name in existing_indexes' of remove_indexes
RemoveStep(p) ==
    /\ pc[p] = "loop"
    /\ op[p].kind = "remove"
    /\ LET todo == ListOf(Targets(existing_indexes[p])) IN
       /\ cur[p] <= Len(todo)
       /\ \E ok \in BOOLEAN :
            IF ok
            THEN /\ sqlite_master' = ExecDrop(sqlite_master, todo[cur[p]])
                 /\ trace' = [trace EXCEPT ![p] = Append(@,
                       Stmt("DROP", todo[cur[p]], TRUE,
                            IF sqlite_master[todo[cur[p]]] = "absent"
                            THEN "none" ELSE "dropped"))]
                 /\ results' = [results EXCEPT ![p].removed = Append(@, todo[cur[p]])]
            ELSE /\ trace' = [trace EXCEPT ![p] = Append(@,
                       Stmt("DROP", todo[cur[p]], FALSE, "none"))]
                 /\ results' = [results EXCEPT ![p].errors = Append(@, todo[cur[p]])]
                 /\ UNCHANGED sqlite_master
       /\ pc' = [pc EXCEPT ![p] = LoopExit(p, Len(todo))]
    /\ cur' = [cur EXCEPT ![p] = @ + 1]
    /\ UNCHANGED <<conn, op, existing_indexes, before, prev, rows, scan_order, request, response,
                   g, connections, ended, cli>>

\* conn.commit() after the loop
Commit(p) ==
    /\ pc[p] = "commit"
    /\ \E ok \in BOOLEAN :
          /\ trace' = [trace EXCEPT ![p] = Append(@, Stmt("COMMIT", "", ok, "none"))]
          /\ pc' = [pc EXCEPT ![p] =
                IF ok THEN AfterLoop(op[p].kind, results[p]) ELSE "raised"]
    /\ UNCHANGED <<conn, sqlite_master, op, existing_indexes, results, cur, before, prev,
                   rows, scan_order, request, response, g, connections, ended, cli>>

\* cursor.execute("ANALYZE metadata_full")
Analyze(p) ==
    /\ pc[p] = "analyze"
    /\ \E ok \in BOOLEAN :
          /\ trace' = [trace EXCEPT ![p] = Append(@, Stmt("ANALYZE", "metadata_full", ok, "none"))]
          /\ pc' = [pc EXCEPT ![p] = IF ok THEN "commit2" ELSE "raised"]
    /\ UNCHANGED <<conn, sqlite_master, op, existing_indexes, results, cur, before, prev,
                   rows, scan_order, request, response, g, connections, ended, cli>>

\* the conn.commit() after ANALYZE
CommitAnalyze(p) ==
    /\ pc[p] = "commit2"
    /\ \E ok \in BOOLEAN :
          /\ trace' = [trace EXCEPT ![p] = Append(@, Stmt("COMMIT", "", ok, "none"))]
          /\ pc' = [pc EXCEPT ![p] = IF ok THEN "close" ELSE "raised"]
    /\ UNCHANGED <<conn, sqlite_master, op, existing_indexes, results, cur, before, prev,
                   rows, scan_order, request, response, g, connections, ended, cli>>

\* conn.close(); return results
CloseAndReturn(p) ==
    /\ pc[p] = "close"
    /\ trace' = [trace EXCEPT ![p] = Append(@, Stmt("CLOSE", "", TRUE, "none"))]
    /\ conn' = [conn EXCEPT ![p] = close(@, op[p].kind)]
    /\ pc' = [pc EXCEPT ![p] = "returned"]
    /\ UNCHANGED <<sqlite_master, op, existing_indexes, results, cur, before, prev,
                   rows, scan_order, request, response, g, connections, ended, cli>>

\* the names of test_queries, in order
test_queries ==
    << "Author search", "Category search", "Word count range", "Multi-filter",
       "Top authors" >>

\* the statements a read-only operation executes between connect() and
\* conn.close(), in order
Queries(kind) ==
    CASE kind = "check_existing_indexes" -> <<"sqlite_master">>
      [] kind = "analyze_current_performance" -> test_queries
      [] kind = "test_performance_improvement" -> test_queries
      [] kind = "get_index_info" -> <<"sqlite_master", "pragma_page_count">>

ProbeKinds ==
    {"check_existing_indexes", "analyze_current_performance",
     "test_performance_improvement", "get_index_info"}

\* a read-only operation is entered; its first statement is conn = self.connect()
BeginProbe(p, kind) ==
    /\ pc[p] \in {"idle", "returned", "raised"}
    /\ op' = [op EXCEPT ![p] = [kind |-> kind, flag |-> FALSE]]
    /\ prev' = [prev EXCEPT ![p] = Summary(p)]
    /\ results' = [results EXCEPT ![p] = EmptyResults]
    /\ existing_indexes' = [existing_indexes EXCEPT ![p] = {}]
    /\ cur' = [cur EXCEPT ![p] = 1]
    /\ trace' = [trace EXCEPT ![p] = <<>>]
    /\ before' = [before EXCEPT ![p] = sqlite_master]
    /\ conn' = [conn EXCEPT ![p] = {}]
    /\ pc' = [pc EXCEPT ![p] = "connect"]
    /\ UNCHANGED <<sqlite_master, rows, scan_order, request, response,
                   g, connections, ended>>

\* a call of one of the read-only operations begins
CallProbe(p) ==
    /\ \E kind \in ProbeKinds : BeginProbe(p, kind)
    /\ UNCHANGED cli

\* cursor.execute(query) of a read-only operation; it may raise, and nothing
\* catches that
ProbeStep(p) ==
    /\ pc[p] = "loop"
    /\ op[p].kind \in ProbeKinds
    /\ LET queries == Queries(op[p].kind) IN
       /\ cur[p] <= Len(queries)
       /\ \E ok \in BOOLEAN :
             /\ trace' = [trace EXCEPT ![p] = Append(@, Stmt("SELECT", queries[cur[p]], ok, "none"))]
             /\ pc' = [pc EXCEPT ![p] =
                   IF ~ok THEN "raised"
                   ELSE IF cur[p] + 1 > Len(queries) THEN "close" ELSE "loop"]
             /\ existing_indexes' = [existing_indexes EXCEPT ![p] =
                   IF ok /\ op[p].kind = "check_existing_indexes"
                   THEN check_existing_indexes(sqlite_master) ELSE @]
    /\ cur' = [cur EXCEPT ![p] = @ + 1]
    /\ UNCHANGED <<sqlite_master, op, results, before, prev, conn,
                   rows, scan_order, request, response, g, connections, ended, cli>>

----------------------------------------------------------------------------
(* Values: text is a sequence of characters; a nullable column or an optional
   request argument is the empty set (NULL, absent) or a set of one value *)

Val(m) == CHOOSE x \in m : TRUE

\* F applied to the value of v
Bind(v, F(_)) == CHOOSE y \in {F(x) : x \in {v}} : TRUE

UpperChars == << "A", "B", "C", "D", "E", "F", "G", "H", "I", "J", "K", "L", "M",
                 "N", "O", "P", "Q", "R", "S", "T", "U", "V", "W", "X", "Y", "Z" >>

LowerChars == << "a", "b", "c", "d", "e", "f", "g", "h", "i", "j", "k", "l", "m",
                 "n", "o", "p", "q", "r", "s", "t", "u", "v", "w", "x", "y", "z" >>

DigitChars == << "0", "1", "2", "3", "4", "5", "6", "7", "8", "9" >>

\* ASCII case folding, as LIKE does it
Lower(c) ==
    IF \E k \in 1..Len(UpperChars) : UpperChars[k] = c
    THEN LowerChars[CHOOSE k \in 1..Len(UpperChars) : UpperChars[k] = c]
    ELSE c

IsDigit(c) == \E k \in 1..Len(DigitChars) : DigitChars[k] = c

DigitVal(c) == (CHOOSE k \in 1..Len(DigitChars) : DigitChars[k] = c) - 1

RECURSIVE LStrip(_)
LStrip(s) == IF s # <<>> /\ Head(s) = " " THEN LStrip(Tail(s)) ELSE s

RECURSIVE RStrip(_)
RStrip(s) ==
    IF s # <<>> /\ s[Len(s)] = " " THEN RStrip(SubSeq(s, 1, Len(s) - 1)) ELSE s

\* str.strip()
Strip(s) == RStrip(LStrip(s))

RECURSIVE ParseDigits(_)
ParseDigits(s) ==
    IF s = <<>> THEN 0
    ELSE ParseDigits(SubSeq(s, 1, Len(s) - 1)) * 10 + DigitVal(s[Len(s)])

\* int(str): optional blanks around an optional sign and decimal digits;
\* anything else is a ValueError
IntOf(s) ==
    LET t == Strip(s)
        signed == t # <<>> /\ Head(t) \in {"-", "+"}
        body == IF signed THEN Tail(t) ELSE t
    IN  IF body = <<>> \/ \E k \in 1..Len(body) : ~IsDigit(body[k])
        THEN [ok |-> FALSE, val |-> 0]
        ELSE [ok |-> TRUE,
              val |-> IF signed /\ Head(t) = "-"
                      THEN 0 - ParseDigits(body) ELSE ParseDigits(body)]

\* text LIKE pattern: % is any run of characters, _ any one character,
\* letters compare without case
RECURSIVE Like(_, _)
Like(text, pattern) ==
    IF pattern = <<>> THEN text = <<>>
    ELSE IF Head(pattern) = "%"
         THEN Like(text, Tail(pattern)) \/ (text # <<>> /\ Like(Tail(text), pattern))
    ELSE IF text = <<>> THEN FALSE
    ELSE IF Head(pattern) = "_" THEN Like(Tail(text), Tail(pattern))
    ELSE Lower(Head(text)) = Lower(Head(pattern)) /\ Like(Tail(text), Tail(pattern))

----------------------------------------------------------------------------
(* search_stories *)

\* the per_page limit of api_search: 'min(..., 100)  # Max 100 results'
MAX_PER_PAGE == 100

\* the defaults of request.args.get('page', 1) and request.args.get('per_page', 50)
DEFAULT_PAGE == 1

DEFAULT_PER_PAGE == 50

\* per_page of the browse route
BROWSE_PER_PAGE == 100

LikeKeys == <<"title", "author", "category", "genre">>

EqualKeys == <<"language", "status", "rating">>

CriteriaKeys == LikeKeys \o EqualKeys \o <<"min_words", "max_words">>

Column ==
    [title |-> "Title", author |-> "Author", category |-> "Category",
     genre |-> "Genre", language |-> "Language", status |-> "Status",
     rating |-> "Rating", min_words |-> "word_count", max_words |-> "word_count"]

MaxWordsOp_Strict == "<"

\* the comparison of 'word_count <= ?'
MaxWordsOp == "<="

\* query_params.get(key): present and truthy
Has(query_params, key) == key \in DOMAIN query_params /\ query_params[key] # <<>>

ClauseOf_Lenient(query_params, key) ==
    IF key \in ToSet(LikeKeys)
    THEN [col |-> Column[key], cmp |-> "LIKE", ok |-> TRUE,
          param |-> <<"%">> \o query_params[key] \o <<"%">>]
    ELSE IF key \in ToSet(EqualKeys)
    THEN [col |-> Column[key], cmp |-> "=", ok |-> TRUE, param |-> query_params[key]]
    ELSE [col |-> Column[key], cmp |-> IF key = "min_words" THEN ">=" ELSE MaxWordsOp,
          ok |-> TRUE, param |-> IntOf(query_params[key]).val]

\* the clause and the bound value one criterion contributes
ClauseOf(query_params, key) ==
    IF key \in ToSet(LikeKeys)
    THEN [col |-> Column[key], cmp |-> "LIKE", ok |-> TRUE,
          param |-> <<"%">> \o query_params[key] \o <<"%">>]
    ELSE IF key \in ToSet(EqualKeys)
    THEN [col |-> Column[key], cmp |-> "=", ok |-> TRUE, param |-> query_params[key]]
    ELSE [col |-> Column[key], cmp |-> IF key = "min_words" THEN ">=" ELSE MaxWordsOp,
          ok |-> IntOf(query_params[key]).ok, param |-> IntOf(query_params[key]).val]

\* the 'if query_params.get(...)' blocks, in their order
Clauses(query_params) ==
    LET present == SelectSeq(CriteriaKeys, LAMBDA key : Has(query_params, key))
    IN  [k \in 1..Len(present) |-> ClauseOf(query_params, present[k])]

EvalClause_NoCase(clause, param, row) ==
    LET cell == row[clause.col]
        fold(text) == [k \in 1..Len(text) |-> Lower(text[k])]
    IN
    /\ cell # {}
    /\ CASE clause.cmp = "LIKE" -> Like(Val(cell), param)
         [] clause.cmp = "=" -> fold(Val(cell)) = fold(param)
         [] clause.cmp = ">=" -> Val(cell) >= param
         [] clause.cmp = "<=" -> Val(cell) <= param
         [] clause.cmp = "<" -> Val(cell) < param

\* one clause of the WHERE on one row, with the value bound to its '?';
\* a comparison with NULL is not true
EvalClause(clause, param, row) ==
    LET cell == row[clause.col] IN
    /\ cell # {}
    /\ CASE clause.cmp = "LIKE" -> Like(Val(cell), param)
         [] clause.cmp = "=" -> Val(cell) = param
         [] clause.cmp = ">=" -> Val(cell) >= param
         [] clause.cmp = "<=" -> Val(cell) <= param
         [] clause.cmp = "<" -> Val(cell) < param

\* " AND ".join(where_conditions), the k-th '?' bound to params[k]
EvalWhere(where_conditions, params, row) ==
    \A k \in 1..Len(where_conditions) :
        EvalClause(where_conditions[k], params[k], row)

Precedes_Ascending(table, order, a, b) ==
    LET ua == table[a].Updated
        ub == table[b].Updated
        pos(r) == CHOOSE k \in 1..Len(order) : order[k] = r
    IN  \/ ub # {} /\ (ua = {} \/ Val(ua) < Val(ub))
        \/ ua = ub /\ pos(a) < pos(b)

\* ORDER BY Updated DESC: NULL sorts last; rows with equal Updated come in the
\* order in which the plan visits them
Precedes(table, order, a, b) ==
    LET ua == table[a].Updated
        ub == table[b].Updated
        pos(r) == CHOOSE k \in 1..Len(order) : order[k] = r
    IN  \/ ua # {} /\ (ub = {} \/ Val(ua) > Val(ub))
        \/ ua = ub /\ pos(a) < pos(b)

OrderByUpdatedDesc(table, order, ids) ==
    [k \in 1..Cardinality(ids) |->
        CHOOSE r \in ids :
            Cardinality({q \in ids : Precedes(table, order, q, r)}) = k - 1]

\* LIMIT ? OFFSET ?: a negative LIMIT is no limit, a negative OFFSET is 0
LimitOffset(seq, limit, offset) ==
    LET off == IF offset < 0 THEN 0 ELSE offset
        last == IF limit < 0 \/ off + limit > Len(seq) THEN Len(seq) ELSE off + limit
    IN  SubSeq(seq, off + 1, last)

Offset_NextPage(page, per_page) == page * per_page

\* '(page - 1) * per_page'
Offset(page, per_page) == (page - 1) * per_page

CountParams_Shifted(params) == SubSeq(params, 2, Len(params) - 1)

\* 'params[:-2]  # Exclude limit and offset params'
CountParams(params) == SubSeq(params, 1, Len(params) - 2)

\* the SELECT list: the row with its rowid
Project(table, r) ==
    [rowid |-> r, Title |-> table[r].Title, Author |-> table[r].Author,
     Category |-> table[r].Category, Genre |-> table[r].Genre,
     Language |-> table[r].Language, Status |-> table[r].Status,
     word_count |-> table[r].word_count, chapter_count |-> table[r].chapter_count,
     Rating |-> table[r].Rating, Updated |-> table[r].Updated]

\* where_conditions: the clauses without their values
WhereConditions(clauses) ==
    [k \in 1..Len(clauses) |-> [col |-> clauses[k].col, cmp |-> clauses[k].cmp]]

\* params after 'params.extend([per_page, (page - 1) * per_page])'
PageParams(clauses, page, per_page) ==
    [k \in 1..Len(clauses) |-> clauses[k].param] \o <<per_page, Offset(page, per_page)>>

\* search_stories(query_params, page, per_page) on a table; raised: int() failed;
\* executed: how many times cursor.execute was called
search_stories(table, order, query_params, page, per_page) ==
    Bind(Clauses(query_params), LAMBDA clauses :
    IF \E k \in 1..Len(clauses) : ~clauses[k].ok
    THEN [raised |-> TRUE, executed |-> 0, results |-> <<>>, total_count |-> 0]
    ELSE
    Bind([where_conditions |-> WhereConditions(clauses),
          params |-> PageParams(clauses, page, per_page)], LAMBDA q :
    Bind({r \in 1..Len(table) : EvalWhere(q.where_conditions, q.params, table[r])},
         LAMBDA hits :
    Bind(LimitOffset(OrderByUpdatedDesc(table, order, hits),
                     q.params[Len(q.params) - 1], q.params[Len(q.params)]),
         LAMBDA page_ids :
    Bind(CountParams(q.params), LAMBDA count_params :
        [raised |-> FALSE, executed |-> 2,
         results |-> [k \in 1..Len(page_ids) |-> Project(table, page_ids[k])],
         total_count |->
             Cardinality({r \in 1..Len(table) :
                             EvalWhere(q.where_conditions, count_params, table[r])})])))))

----------------------------------------------------------------------------
(* The database session of a request *)

\* get_db(): the connection of the request, opened on first use and kept in g
get_db(gv, conns) ==
    IF gv # {} THEN [g |-> gv, connections |-> conns]
    ELSE LET db == CHOOSE c \in 1..(Cardinality(conns) + 1) : c \notin conns
         IN  [g |-> {db}, connections |-> conns \cup {db}]

close_db_PopOnly(gv, conns) == [g |-> {}, connections |-> conns]

\* close_db(): 'db = g.pop('db', None)' and 'db.close()' if there was one
close_db(gv, conns) == [g |-> {}, connections |-> conns \ gv]

----------------------------------------------------------------------------
(* The request handlers *)

ArgKeys == ToSet(CriteriaKeys) \cup {"page", "per_page", "show_all"}

\* request.args.get(key, '').strip()
ArgText(args, key) == IF args[key] = {} THEN <<>> ELSE Strip(Val(args[key]))

\* the dict of stripped criteria with the empty ones dropped
QueryParams(args) ==
    [key \in {k \in ToSet(CriteriaKeys) : ArgText(args, k) # <<>>} |-> ArgText(args, key)]

\* int(request.args.get(key, default))
ArgInt(args, key, default) ==
    IF args[key] = {} THEN [ok |-> TRUE, val |-> default] ELSE IntOf(Val(args[key]))

\* integer division rounding down, for any non-zero divisor
FloorDiv(a, b) == IF b > 0 THEN a \div b ELSE (0 - a) \div (0 - b)

\* math.ceil(a / b)
CeilDiv(a, b) == 0 - FloorDiv(0 - a, b)

Min(a, b) == IF a < b THEN a ELSE b

Failed(route) == [route |-> route, status |-> 500, searched |-> FALSE, data |-> <<>>,
                  page |-> 0, per_page |-> 0, total_count |-> 0, total_pages |-> 0]

Answer(route, searched, found, page, per_page, total_pages) ==
    [route |-> route, status |-> 200, searched |-> searched, data |-> found.results,
     page |-> page, per_page |-> per_page, total_count |-> found.total_count,
     total_pages |-> total_pages]

\* api.py api_search: GET /api/search
api_search(table, order, args) ==
    Bind([query_params |-> QueryParams(args),
          page |-> ArgInt(args, "page", DEFAULT_PAGE),
          raw |-> ArgInt(args, "per_page", DEFAULT_PER_PAGE)], LAMBDA a :
    IF ~a.page.ok \/ ~a.raw.ok
    THEN Failed("api")
    ELSE
    Bind(Min(a.raw.val, MAX_PER_PAGE), LAMBDA per_page :
    Bind(search_stories(table, order, a.query_params, a.page.val, per_page), LAMBDA found :
        IF found.raised \/ per_page = 0
        THEN Failed("api")
        ELSE Answer("api", TRUE, found, a.page.val, per_page,
                    FloorDiv(found.total_count + per_page - 1, per_page)))))

\* routes.py search: GET /search
search(table, order, args) ==
    Bind([query_params |-> QueryParams(args),
          page |-> ArgInt(args, "page", DEFAULT_PAGE),
          per_page |-> ArgInt(args, "per_page", DEFAULT_PER_PAGE)], LAMBDA a :
    IF ~a.page.ok \/ ~a.per_page.ok
    THEN Failed("web")
    ELSE IF DOMAIN a.query_params # {}
            \/ (args["show_all"] # {} /\ Val(args["show_all"]) # <<>>)
    THEN Bind(search_stories(table, order, a.query_params, a.page.val, a.per_page.val),
              LAMBDA found :
             IF found.raised \/ a.per_page.val = 0
             THEN Failed("web")
             ELSE Answer("web", TRUE, found, a.page.val, a.per_page.val,
                         CeilDiv(found.total_count, a.per_page.val)))
    ELSE Answer("web", FALSE, [results |-> <<>>, total_count |-> 0], 0, 0, 0))

\* routes.py browse: GET /browse
browse(table, order, args) ==
    Bind(ArgInt(args, "page", DEFAULT_PAGE), LAMBDA page :
    IF ~page.ok
    THEN Failed("browse")
    ELSE
    Bind(search_stories(table, order, << >>, page.val, BROWSE_PER_PAGE), LAMBDA found :
        Answer("browse", TRUE, found, page.val, BROWSE_PER_PAGE,
               CeilDiv(found.total_count, BROWSE_PER_PAGE))))

Handle(route, table, order, args) ==
    CASE route = "api" -> api_search(table, order, args)
      [] route = "web" -> search(table, order, args)
      [] route = "browse" -> browse(table, order, args)

----------------------------------------------------------------------------
(* The index manager's specification *)

MasterStates ==
    {m \in [Names -> {"absent", "catalog", "other"}] :
        \A n \in ForeignNames \cup InternalNames : m[n] # "catalog"}

NoRequest == [route |-> "none"]

\* no request context: nothing in g, no connection open
NoSession ==
    /\ g = {}
    /\ connections = {}
    /\ ended = NoRequest

InitQueryIdle ==
    /\ rows = <<>>
    /\ scan_order = <<>>
    /\ request = NoRequest
    /\ response = NoRequest
    /\ NoSession

Init ==
    /\ sqlite_master \in MasterStates
    /\ pc = [p \in Procs |-> "idle"]
    /\ op = [p \in Procs |-> NoOp]
    /\ existing_indexes = [p \in Procs |-> {}]
    /\ results = [p \in Procs |-> EmptyResults]
    /\ cur = [p \in Procs |-> 1]
    /\ trace = [p \in Procs |-> <<>>]
    /\ before = [p \in Procs |-> sqlite_master]
    /\ prev = [p \in Procs |-> NoPrev]
    /\ conn = [p \in Procs |-> {}]
    /\ cli = NoCli
    /\ InitQueryIdle

Next ==
    \E p \in Procs :
        \/ CallCreate(p)
        \/ CallRemove(p)
        \/ CheckExisting(p)
        \/ Connect(p)
        \/ CreateStep(p)
        \/ RemoveStep(p)
        \/ Commit(p)
        \/ Analyze(p)
        \/ CommitAnalyze(p)
        \/ CloseAndReturn(p)

Spec == Init /\ [][Next]_vars

----------------------------------------------------------------------------
(* Every operation of DatabaseIndexer, one call after another *)

NextOps ==
    \/ Next
    \/ \E p \in Procs : CallProbe(p) \/ ProbeStep(p)

SpecOps == Init /\ [][NextOps]_vars

----------------------------------------------------------------------------
(* The query engine's specification: requests against a dataset snapshot *)

NoArgs == [key \in ArgKeys |-> {}]

\* values of min_words and max_words a request may carry
WordArgs == {{}, {<<"0">>}, {<<"1">>}, {<<"2", " ">>}, {<<"a", "b", "c">>}}

PageArgs == {{}, {<<"0">>}, {<<"2">>}}

PerPageArgs == {{}, {<<"1">>}, {<<"2">>}, {<<"5", "0", "0">>}}

ShowAllArgs == {{}, {<<"1">>}}

WordCounts == {{}, {0}, {2}}

UpdatedValues == {{1}, {2}}

Row(word_count, updated) ==
    [Title |-> {<<"T">>}, Author |-> {<<"A">>}, Category |-> {<<"C">>},
     Genre |-> {<<"G">>}, Language |-> {<<"E">>}, Status |-> {<<"S">>},
     Rating |-> {<<"K">>}, word_count |-> word_count, chapter_count |-> {1},
     Updated |-> updated]

RowValues == {Row(w, u) : w \in WordCounts, u \in UpdatedValues}

Tables == UNION {[1..n -> RowValues] : n \in 0..MaxRows}

\* the orders in which a plan may visit the rows: by rowid, or by an index
ScanOrders(n) == {[k \in 1..n |-> k], [k \in 1..n |-> n + 1 - k]}

InitIndexesIdle ==
    /\ sqlite_master = [n \in Names |-> "absent"]
    /\ pc = [p \in Procs |-> "idle"]
    /\ op = [p \in Procs |-> NoOp]
    /\ existing_indexes = [p \in Procs |-> {}]
    /\ results = [p \in Procs |-> EmptyResults]
    /\ cur = [p \in Procs |-> 1]
    /\ trace = [p \in Procs |-> <<>>]
    /\ before = [p \in Procs |-> sqlite_master]
    /\ prev = [p \in Procs |-> NoPrev]
    /\ conn = [p \in Procs |-> {}]
    /\ cli = NoCli

InitSearch ==
    /\ InitIndexesIdle
    /\ rows \in Tables
    /\ scan_order \in ScanOrders(Len(rows))
    /\ request = NoRequest
    /\ response = NoRequest
    /\ NoSession

\* the handler reaches a function of utils.py, whose first statement is
\* 'db = get_db()'
OpensDb(route, args) ==
    CASE route = "api" ->
             /\ ArgInt(args, "page", DEFAULT_PAGE).ok
             /\ ArgInt(args, "per_page", DEFAULT_PER_PAGE).ok
      [] route = "web" ->
             /\ ArgInt(args, "page", DEFAULT_PAGE).ok
             /\ ArgInt(args, "per_page", DEFAULT_PER_PAGE).ok
             /\ \/ DOMAIN QueryParams(args) # {}
                \/ (args["show_all"] # {} /\ Val(args["show_all"]) # <<>>)
      [] route = "browse" -> ArgInt(args, "page", DEFAULT_PAGE).ok
      [] route = "authors" -> args.limit = {} \/ IntOf(Val(args.limit)).ok
      [] route \in {"top_authors", "basic"} -> TRUE

\* a request context begins and the handler uses the database, or does not
Enter(route, args) ==
    /\ ended = NoRequest
    /\ LET session == IF OpensDb(route, args) THEN get_db(g, connections)
                      ELSE [g |-> g, connections |-> connections]
       IN  /\ g' = session.g
           /\ connections' = session.connections
    /\ ended' = ended

\* the handler of a request runs to the end
Serve(route, args) ==
    /\ Enter(route, args)
    /\ request' = [route |-> route, args |-> args]
    /\ response' = Handle(route, rows, scan_order, args)
    /\ UNCHANGED <<rows, scan_order>>
    /\ UNCHANGED idxVars

\* GET /api/search
ApiSearch ==
    /\ request = NoRequest
    /\ \E lo \in WordArgs, hi \in WordArgs, page \in PageArgs, per_page \in PerPageArgs :
          Serve("api", [NoArgs EXCEPT !["min_words"] = lo, !["max_words"] = hi,
                                      !["page"] = page, !["per_page"] = per_page])

\* GET /search
WebSearch ==
    /\ request = NoRequest
    /\ \E lo \in WordArgs, hi \in WordArgs, page \in PageArgs, per_page \in PerPageArgs,
          show_all \in ShowAllArgs :
          /\ show_all # {} => (lo = {} /\ hi = {})
          /\ Serve("web", [NoArgs EXCEPT !["min_words"] = lo, !["max_words"] = hi,
                                         !["page"] = page, !["per_page"] = per_page,
                                         !["show_all"] = show_all])

\* GET /browse
Browse ==
    /\ request = NoRequest
    /\ \E page \in PageArgs :
          Serve("browse", [NoArgs EXCEPT !["page"] = page])

\* the response is sent and the application context is torn down, whatever
\* the handler answered: close_db runs
Teardown ==
    /\ request # NoRequest
    /\ LET session == close_db(g, connections)
       IN  /\ g' = session.g
           /\ connections' = session.connections
    /\ ended' = [route |-> request.route, status |-> response.status, opened |-> g # {}]
    /\ request' = NoRequest
    /\ response' = NoRequest
    /\ UNCHANGED <<rows, scan_order>>
    /\ UNCHANGED idxVars

\* the worker is ready for the next request
Ready ==
    /\ ended # NoRequest
    /\ ended' = NoRequest
    /\ UNCHANGED <<rows, scan_order, request, response, g, connections>>
    /\ UNCHANGED idxVars

NextSearch == ApiSearch \/ WebSearch \/ Browse \/ Teardown \/ Ready

SpecSearch == InitSearch /\ [][NextSearch]_vars

----------------------------------------------------------------------------
(* The query engine on text criteria: requests that filter by a substring
   field or an exact-match field, or by nothing *)

\* values of a substring criterion a request may carry
LikeArgs == {<<"a">>, <<"B">>, <<"_">>, <<"%">>}

\* values of an exact-match criterion a request may carry
EqualArgs == {<<"e", "n">>, <<"E", "N">>}

\* a row whose four text columns read by LIKE hold text, whose three columns
\* read by '=' hold code, and whose Updated is updated
StoryRow(text, code, updated) ==
    [Title |-> text, Author |-> text, Category |-> text, Genre |-> text,
     Language |-> code, Status |-> code, Rating |-> code,
     word_count |-> {1}, chapter_count |-> {1}, Updated |-> updated]

StoryValues ==
    { StoryRow({<<"A", "b">>}, {<<"e", "n">>}, {2}),
      StoryRow({<<"b">>}, {<<"E", "N">>}, {1}),
      StoryRow({<<"a", "_">>}, {<<"e", "n">>}, {1}),
      StoryRow({}, {}, {}) }

StoryTables == UNION {[1..n -> StoryValues] : n \in 0..MaxRows}

InitMatch ==
    /\ InitIndexesIdle
    /\ rows \in StoryTables
    /\ scan_order \in ScanOrders(Len(rows))
    /\ request = NoRequest
    /\ response = NoRequest
    /\ NoSession

\* the arguments of a request with at most one substring criterion and at
\* most one exact-match criterion
TextArgs ==
    {NoArgs} \cup
    {[NoArgs EXCEPT ![key] = {v}] : key \in ToSet(LikeKeys), v \in LikeArgs} \cup
    {[NoArgs EXCEPT ![key] = {v}] : key \in ToSet(EqualKeys), v \in EqualArgs} \cup
    {[NoArgs EXCEPT ![lk] = {<<"a">>}, ![ek] = {<<"e", "n">>}] :
        lk \in ToSet(LikeKeys), ek \in ToSet(EqualKeys)}

\* GET /api/search?<key>=<text>
ApiSearchText ==
    /\ request = NoRequest
    /\ \E args \in TextArgs, per_page \in {{}, {<<"1">>}} :
          Serve("api", [args EXCEPT !["per_page"] = per_page])

\* GET /search?<key>=<text>, or GET /search?show_all=1
WebSearchText ==
    /\ request = NoRequest
    /\ \E args \in TextArgs, show_all \in ShowAllArgs :
          /\ show_all # {} => args = NoArgs
          /\ Serve("web", [args EXCEPT !["show_all"] = show_all])

NextMatch == ApiSearchText \/ WebSearchText \/ Browse \/ Teardown \/ Ready

SpecMatch == InitMatch /\ [][NextMatch]_vars

----------------------------------------------------------------------------
(* get_top_authors, get_basic_stats and the routes that serve them *)

\* how many rows metadata_full has at most when statistics are served
MaxStories == 3

\* the limit of the /top/authors page: get_top_authors(50)
TOP_AUTHORS_PAGE == 50

\* the default of request.args.get('limit', 10)
DEFAULT_LIMIT == 10

RECURSIVE SumWords(_, _)
\* the sum of word_count over the rows ids, all of which have one
SumWords(table, ids) ==
    IF ids = {} THEN 0
    ELSE LET r == CHOOSE x \in ids : TRUE
         IN  Val(table[r].word_count) + SumWords(table, ids \ {r})

\* SUM(word_count) over the rows ids: NULL values are skipped, and the sum of
\* no value is NULL
SqlSum(table, ids) ==
    LET present == {r \in ids : table[r].word_count # {}}
    IN  IF present = {} THEN {} ELSE {SumWords(table, present)}

\* AVG(word_count) over the rows ids, as the fraction num / den: NULL values
\* are skipped, and the average of no value is NULL
SqlAvg(table, ids) ==
    LET present == {r \in ids : table[r].word_count # {}}
    IN  IF present = {} THEN {}
        ELSE {[num |-> SumWords(table, present), den |-> Cardinality(present)]}

HasAuthor_NotNull(row) == row.Author # {}

\* WHERE Author IS NOT NULL AND Author != ''
HasAuthor(row) == row.Author # {} /\ Val(row.Author) # <<>>

\* get_top_authors(limit): one entry per Author, ORDER BY story_count DESC
\* LIMIT ?; groups with equal story_count come in the order in which the plan
\* first visits them
get_top_authors(table, order, limit) ==
    LET named == {r \in 1..Len(table) : HasAuthor(table[r])}
        authors == {Val(table[r].Author) : r \in named}
        members(a) == {r \in named : Val(table[r].Author) = a}
        pos(r) == CHOOSE k \in 1..Len(order) : order[k] = r
        first(a) == CHOOSE k \in {pos(r) : r \in members(a)} :
                        \A r \in members(a) : k <= pos(r)
        precedes(a, b) ==
            \/ Cardinality(members(a)) > Cardinality(members(b))
            \/ Cardinality(members(a)) = Cardinality(members(b)) /\ first(a) < first(b)
        ranked == [k \in 1..Cardinality(authors) |->
                      CHOOSE a \in authors :
                          Cardinality({b \in authors : precedes(b, a)}) = k - 1]
        entry(a) == [Author |-> a,
                     story_count |-> Cardinality(members(a)),
                     avg_words |-> SqlAvg(table, members(a)),
                     total_words |-> SqlSum(table, members(a))]
        top == LimitOffset(ranked, limit, 0)
    IN  [k \in 1..Len(top) |-> entry(top[k])]

Qualifies_NonNull(word_count) == word_count # {}

\* WHERE word_count > 0
Qualifies(word_count) == word_count # {} /\ Val(word_count) > 0

\* 'int(row[3]) if row[3] else 0' on a sum: NULL and zero give 0
IntOfSum(x) == IF x = {} THEN 0 ELSE Val(x)

\* 'int(avg_words) if avg_words else 0' on an average: NULL and zero give 0,
\* a positive fraction is cut to its integer part
IntOfAvg(x) == IF x = {} THEN 0 ELSE Val(x).num \div Val(x).den

\* get_basic_stats()
get_basic_stats(table) ==
    LET all == 1..Len(table)
        counted == {r \in all : Qualifies(table[r].word_count)}
    IN  [total_stories |-> Len(table),
         unique_authors |->
             Cardinality({Val(table[r].Author) : r \in {x \in all : HasAuthor(table[x])}}),
         total_words |-> SqlSum(table, {r \in all : table[r].word_count # {}}),
         avg_words |-> IntOfAvg(SqlAvg(table, counted))]

StatsFailed(route) == [route |-> route, status |-> 500, data |-> << >>]

\* api.py api_author_stats: GET /api/stats/authors
api_author_stats(table, order, args) ==
    LET limit == IF args.limit = {} THEN [ok |-> TRUE, val |-> DEFAULT_LIMIT]
                 ELSE IntOf(Val(args.limit))
    IN  IF ~limit.ok THEN StatsFailed("authors")
        ELSE LET authors == get_top_authors(table, order, limit.val)
             IN  [route |-> "authors", status |-> 200,
                  data |-> [k \in 1..Len(authors) |->
                              [name |-> authors[k].Author,
                               story_count |-> authors[k].story_count,
                               avg_words |-> IntOfAvg(authors[k].avg_words),
                               total_words |-> IntOfSum(authors[k].total_words)]]]

\* routes.py top_authors: GET /top/authors
top_authors(table, order) ==
    [route |-> "top_authors", status |-> 200,
     data |-> get_top_authors(table, order, TOP_AUTHORS_PAGE)]

\* api.py api_basic_stats: GET /api/stats/basic
api_basic_stats(table) ==
    [route |-> "basic", status |-> 200, data |-> get_basic_stats(table)]

\* values of the limit argument a request may carry
LimitArgs == {{}, {<<"0">>}, {<<"1">>}, {<<"2">>}, {<<"-", "1">>}, {<<"x">>}}

AuthorValues == {{<<"A">>}, {<<"b">>}}

WordValues == {{}, {0}, {1}, {2}}

AuthorRow(author, word_count) ==
    [Title |-> {<<"T">>}, Author |-> author, Category |-> {<<"C">>},
     Genre |-> {<<"G">>}, Language |-> {<<"E">>}, Status |-> {<<"S">>},
     Rating |-> {<<"K">>}, word_count |-> word_count, chapter_count |-> {1},
     Updated |-> {1}]

\* rows of named authors with every word count, and one row without an
\* author and one with the empty author
AuthorRows ==
    {AuthorRow(a, w) : a \in AuthorValues, w \in WordValues}
        \cup {AuthorRow({}, {2}), AuthorRow({<< >>}, {2})}

AuthorTables == UNION {[1..n -> AuthorRows] : n \in 0..MaxStories}

InitStats ==
    /\ InitIndexesIdle
    /\ rows \in AuthorTables
    /\ scan_order \in ScanOrders(Len(rows))
    /\ request = NoRequest
    /\ response = NoRequest
    /\ NoSession

\* GET /api/stats/authors?limit=...
ApiAuthorStats ==
    /\ request = NoRequest
    /\ \E limit \in LimitArgs :
          /\ Enter("authors", [limit |-> limit])
          /\ request' = [route |-> "authors", args |-> [limit |-> limit]]
          /\ response' = api_author_stats(rows, scan_order, [limit |-> limit])
    /\ UNCHANGED <<rows, scan_order>>
    /\ UNCHANGED idxVars

\* GET /top/authors
TopAuthors ==
    /\ request = NoRequest
    /\ Enter("top_authors", [limit |-> {}])
    /\ request' = [route |-> "top_authors", args |-> [limit |-> {}]]
    /\ response' = top_authors(rows, scan_order)
    /\ UNCHANGED <<rows, scan_order>>
    /\ UNCHANGED idxVars

\* GET /api/stats/basic
ApiBasicStats ==
    /\ request = NoRequest
    /\ Enter("basic", [limit |-> {}])
    /\ request' = [route |-> "basic", args |-> [limit |-> {}]]
    /\ response' = api_basic_stats(rows)
    /\ UNCHANGED <<rows, scan_order>>
    /\ UNCHANGED idxVars

NextStats == ApiAuthorStats \/ TopAuthors \/ ApiBasicStats \/ Teardown \/ Ready

SpecStats == InitStats /\ [][NextStats]_vars

----------------------------------------------------------------------------
(* The query engine while the index manager works on the same database *)

\* the rowids by ascending word_count, NULL first, as idx_word_count holds them
ByWordCount(table) ==
    LET key(r) == IF table[r].word_count = {} THEN 0 - 1 ELSE Val(table[r].word_count)
        earlier(a, b) == key(a) < key(b) \/ (key(a) = key(b) /\ a < b)
    IN  [k \in 1..Len(table) |->
            CHOOSE r \in 1..Len(table) :
                Cardinality({q \in 1..Len(table) : earlier(q, r)}) = k - 1]

\* the orders in which the plan of the page query can visit the rows, which
\* is the order of rows of equal Updated in 'ORDER BY Updated DESC': the
\* table is scanned by rowid, or, when idx_word_count exists and the query
\* has a word_count condition, the planner may search that index instead
PlanOrders(master, table, query_params) ==
    {[k \in 1..Len(table) |-> k]} \cup
    ( IF /\ master["idx_word_count"] # "absent"
         /\ (Has(query_params, "min_words") \/ Has(query_params, "max_words"))
      THEN {ByWordCount(table)} ELSE {} )

\* tables whose rows have the same Updated and a word_count
PlainTables == {t \in Tables : \A r \in 1..Len(t) : t[r].Updated = {1} /\ t[r].word_count # {}}

InitMaint ==
    /\ sqlite_master = [n \in Names |-> IF n \in InternalNames THEN "other" ELSE "absent"]
    /\ pc = [p \in Procs |-> "idle"]
    /\ op = [p \in Procs |-> NoOp]
    /\ existing_indexes = [p \in Procs |-> {}]
    /\ results = [p \in Procs |-> EmptyResults]
    /\ cur = [p \in Procs |-> 1]
    /\ trace = [p \in Procs |-> <<>>]
    /\ before = [p \in Procs |-> sqlite_master]
    /\ prev = [p \in Procs |-> NoPrev]
    /\ conn = [p \in Procs |-> {}]
    /\ cli = NoCli
    /\ rows \in PlainTables
    /\ scan_order = [k \in 1..Len(rows) |-> k]
    /\ request = NoRequest
    /\ response = NoRequest
    /\ NoSession

\* the handler of a request runs to the end on the database as the index
\* manager has left it so far
ServePlanned(route, args) ==
    /\ Enter(route, args)
    /\ scan_order' \in PlanOrders(sqlite_master, rows, QueryParams(args))
    /\ request' = [route |-> route, args |-> args]
    /\ response' = Handle(route, rows, scan_order', args)
    /\ UNCHANGED rows
    /\ UNCHANGED idxVars

\* GET /api/search, with or without a lower bound on word_count
ApiSearchPlanned ==
    /\ request = NoRequest
    /\ \E lo \in {{}, {<<"0">>}}, per_page \in {{}, {<<"1">>}} :
          ServePlanned("api", [NoArgs EXCEPT !["min_words"] = lo, !["per_page"] = per_page])

\* GET /browse
BrowsePlanned ==
    /\ request = NoRequest
    /\ \E page \in {{}, {<<"2">>}} :
          ServePlanned("browse", [NoArgs EXCEPT !["page"] = page])

NextMaint ==
    \/ Next
    \/ ApiSearchPlanned
    \/ BrowsePlanned
    \/ Teardown
    \/ Ready

SpecMaint == InitMaint /\ [][NextMaint]_vars

----------------------------------------------------------------------------
(* Two maintenance processes on the same database file, each running one
   operation of DatabaseIndexer; every statement is its own transaction, so
   the statements of the two interleave *)

ConcProcs == {"m1", "m2"}

\* sqlite_master before the two start: catalog indexes built or not
ConcMasterStates ==
    {m \in MasterStates :
        /\ \A n \in CatalogNames : m[n] # "other"
        /\ \A n \in ForeignNames : m[n] = "absent"
        /\ \A n \in InternalNames : m[n] = "other"}

InitConc ==
    /\ sqlite_master \in ConcMasterStates
    /\ pc = [p \in ConcProcs |-> "idle"]
    /\ op = [p \in ConcProcs |-> NoOp]
    /\ existing_indexes = [p \in ConcProcs |-> {}]
    /\ results = [p \in ConcProcs |-> EmptyResults]
    /\ cur = [p \in ConcProcs |-> 1]
    /\ trace = [p \in ConcProcs |-> <<>>]
    /\ before = [p \in ConcProcs |-> sqlite_master]
    /\ prev = [p \in ConcProcs |-> NoPrev]
    /\ conn = [p \in ConcProcs |-> {}]
    /\ cli = NoCli
    /\ InitQueryIdle

\* a process runs create_indexes() with the default force=False
StartCreate(p) ==
    /\ pc[p] = "idle"
    /\ BeginCreate(p, FALSE)
    /\ UNCHANGED cli

\* the second process runs remove_indexes(confirm=True) instead
StartRemove(p) ==
    /\ p = "m2"
    /\ pc[p] = "idle"
    /\ BeginRemove(p, TRUE)
    /\ UNCHANGED cli

NextConc ==
    \E p \in ConcProcs :
        \/ StartCreate(p)
        \/ StartRemove(p)
        \/ CheckExisting(p)
        \/ Connect(p)
        \/ CreateStep(p)
        \/ RemoveStep(p)
        \/ Commit(p)
        \/ Analyze(p)
        \/ CommitAnalyze(p)
        \/ CloseAndReturn(p)

SpecConc == InitConc /\ [][NextConc]_vars

----------------------------------------------------------------------------
(* manage.py: the maintenance command line *)

CREATE_INDEXES == <<"c", "r", "e", "a", "t", "e", "-", "i", "n", "d", "e", "x", "e", "s">>

ANALYZE == <<"a", "n", "a", "l", "y", "z", "e">>

REMOVE_INDEXES == <<"r", "e", "m", "o", "v", "e", "-", "i", "n", "d", "e", "x", "e", "s">>

HelpCommands == {<<"h", "e", "l", "p">>, <<"-", "-", "h", "e", "l", "p">>, <<"-", "h">>}

\* the keys of 'commands' in main
Commands == {CREATE_INDEXES, ANALYZE, REMOVE_INDEXES} \cup HelpCommands

YES == <<"y", "e", "s">>

\* str.lower()
lower(s) == [k \in 1..Len(s) |-> Lower(s[k])]

Confirmed_StartsWithY(confirm) == confirm # <<>> /\ Head(confirm) = "y"

\* remove_indexes of manage.py: the negation of "if confirm != 'yes'"
Confirmed(confirm) == confirm = YES

\* a return value used as a condition: None and False are falsy
Truthy(success) == success = {TRUE}

ExitCode_SuccessOnly(success, command) == IF Truthy(success) THEN 0 ELSE 1

\* main: 'sys.exit(0 if success or command in ['help', '--help', '-h'] else 1)'
ExitCode(success, command) ==
    IF Truthy(success) \/ command \in HelpCommands THEN 0 ELSE 1

\* the variables of the DatabaseIndexer calls
callVars ==
    <<sqlite_master, pc, op, existing_indexes, results, cur, trace, before, prev, conn>>

\* the process leaves with an exit status
Exited(success, status) ==
    [cli EXCEPT !.pc = "exited", !.success = success, !.exit = {status}]

\* main up to the call of the command function, and that function up to its
\* first call into DatabaseIndexer or its input(); db_exists is what
\* os.path.exists(db_path) answers
Main(p) ==
    /\ cli.pc = "main"
    /\ UNCHANGED qryVars
    /\ IF Len(cli.argv) < 1
       THEN \* show_help(); return
            /\ cli' = Exited({}, 0)
            /\ UNCHANGED callVars
       ELSE LET command == lower(cli.argv[1]) IN
            IF command \notin Commands
            THEN \* Unknown command: show_help(); sys.exit(1)
                 /\ cli' = [Exited({}, 1) EXCEPT !.command = command]
                 /\ UNCHANGED callVars
            ELSE IF command \in HelpCommands
            THEN \* show_help() returns None
                 /\ cli' = [Exited({}, ExitCode({}, command)) EXCEPT !.command = command]
                 /\ UNCHANGED callVars
            ELSE \E db_exists \in BOOLEAN :
                 IF ~db_exists
                 THEN \* Database file not found: return False
                      /\ cli' = [Exited({FALSE}, ExitCode({FALSE}, command))
                                    EXCEPT !.command = command, !.db_exists = {FALSE}]
                      /\ UNCHANGED callVars
                 ELSE /\ cli' = [cli EXCEPT !.command = command, !.db_exists = {TRUE},
                                    !.pc = IF command = REMOVE_INDEXES THEN "input" ELSE "call"]
                      /\ IF command = CREATE_INDEXES THEN BeginCreate(p, FALSE)
                         ELSE IF command = ANALYZE
                         THEN BeginProbe(p, "analyze_current_performance")
                         ELSE UNCHANGED callVars

\* the answers an operator may type at the prompt; none is end of input
Answers ==
    {{}, {YES}, {<<"Y", "E", "S">>}, {<<" ", "Y", "e", "s", " ">>}, {<<"y">>},
     {<<"n", "o">>}, {<<>>}, {<<"y", "e", "s", "!">>}, {<<"y", "e", " ", "s">>}}

\* remove_indexes of manage.py: the prompt and the gate behind it
Input(p) ==
    /\ cli.pc = "input"
    /\ UNCHANGED qryVars
    /\ \E answer \in Answers :
          IF answer = {}
          THEN \* input() raises EOFError outside any try: traceback, status 1
               /\ cli' = Exited({}, 1)
               /\ UNCHANGED callVars
          ELSE LET confirm == Strip(lower(Val(answer))) IN
               IF ~Confirmed(confirm)
               THEN \* Operation cancelled: return False
                    /\ cli' = [Exited({FALSE}, ExitCode({FALSE}, cli.command))
                                  EXCEPT !.answer = answer]
                    /\ UNCHANGED callVars
               ELSE /\ cli' = [cli EXCEPT !.answer = answer, !.pc = "call"]
                    /\ BeginRemove(p, TRUE)

\* analyze_performance: after analyze_current_performance has returned,
\* existing_indexes = indexer.check_existing_indexes()
CheckAfterAnalyze(p) ==
    /\ cli.pc = "call"
    /\ op[p].kind = "analyze_current_performance"
    /\ pc[p] = "returned"
    /\ BeginProbe(p, "check_existing_indexes")
    /\ UNCHANGED cli

\* the command function after its last call into DatabaseIndexer: it returns
\* False when the call raised ('except Exception') or recorded errors, True
\* otherwise; main exits with the status
Finish(p) ==
    /\ cli.pc = "call"
    /\ pc[p] \in {"returned", "raised"}
    /\ ~(op[p].kind = "analyze_current_performance" /\ pc[p] = "returned")
    /\ LET success == pc[p] = "returned" /\ results[p].errors = <<>>
       IN  cli' = Exited({success}, ExitCode({success}, cli.command))
    /\ UNCHANGED callVars
    /\ UNCHANGED qryVars

Argvs ==
    {<<>>, <<CREATE_INDEXES>>, <<ANALYZE>>, <<REMOVE_INDEXES>>,
     <<<<"R", "e", "m", "o", "v", "e", "-", "I", "n", "d", "e", "x", "e", "s">>>>,
     <<<<"h", "e", "l", "p">>>>, <<<<"-", "-", "h", "e", "l", "p">>>>, <<<<"-", "H">>>>,
     <<<<"d", "r", "o", "p">>>>, <<<<"h", "e", "l", "p">>, CREATE_INDEXES>>}

InitCli ==
    /\ sqlite_master \in MasterStates
    /\ pc = [p \in Procs |-> "idle"]
    /\ op = [p \in Procs |-> NoOp]
    /\ existing_indexes = [p \in Procs |-> {}]
    /\ results = [p \in Procs |-> EmptyResults]
    /\ cur = [p \in Procs |-> 1]
    /\ trace = [p \in Procs |-> <<>>]
    /\ before = [p \in Procs |-> sqlite_master]
    /\ prev = [p \in Procs |-> NoPrev]
    /\ conn = [p \in Procs |-> {}]
    /\ \E argv \in Argvs :
          cli = [pc |-> "main", argv |-> argv, command |-> <<>>, db_exists |-> {},
                 answer |-> {}, success |-> {}, exit |-> {}]
    /\ InitQueryIdle

NextCli ==
    \E p \in Procs :
        \/ Main(p)
        \/ Input(p)
        \/ CheckAfterAnalyze(p)
        \/ Finish(p)
        \/ CheckExisting(p)
        \/ Connect(p)
        \/ CreateStep(p)
        \/ RemoveStep(p)
        \/ ProbeStep(p)
        \/ Commit(p)
        \/ Analyze(p)
        \/ CommitAnalyze(p)
        \/ CloseAndReturn(p)

SpecCli == InitCli /\ [][NextCli]_vars

----------------------------------------------------------------------------
(* Properties of the index manager, checked under Spec *)

Returned(p, kind, flag) ==
    pc[p] = "returned" /\ op[p] = [kind |-> kind, flag |-> flag]

Events(p, kind) == {j \in 1..Len(trace[p]) : trace[p][j].stmt = kind}

\* C1: remove_indexes(confirm=False) never removes an index: whatever indexes
\* metadata_full has, the call returns at once with removed = [] and
\* errors = [], has executed no statement, and sqlite_master is what it was.
C1_UnconfirmedRemoveKeepsIndexes ==
    \A p \in Procs :
        op[p] = [kind |-> "remove", flag |-> FALSE] =>
            /\ pc[p] = "returned"
            /\ trace[p] = <<>>
            /\ results[p].removed = <<>>
            /\ results[p].errors = <<>>
            /\ sqlite_master = before[p]

C1_Witness ==
    \E p \in Procs :
        /\ Returned(p, "remove", FALSE)
        /\ \A n \in Names : sqlite_master[n] # "absent"

\* C2: create_indexes(force=False) called right after a create_indexes(force=False)
\* that returned without errors reports the whole catalog under skipped, nothing
\* under created, no errors, and leaves sqlite_master as it found it.
C2_SecondEnsureSkipsAll ==
    \A p \in Procs :
        ( /\ Returned(p, "create", FALSE)
          /\ prev[p] = [kind |-> "create", flag |-> FALSE,
                        returned |-> TRUE, clean |-> TRUE] )
        => /\ results[p].skipped = Catalog
           /\ results[p].created = <<>>
           /\ results[p].errors = <<>>
           /\ sqlite_master = before[p]

C2_Witness ==
    \E p \in Procs :
        /\ Returned(p, "create", FALSE)
        /\ prev[p] = [kind |-> "create", flag |-> FALSE,
                      returned |-> TRUE, clean |-> TRUE]
        /\ results[p].skipped = Catalog

\* C3 as claimed: remove_indexes(confirm=True) that returns without errors has
\* removed every catalog index and has left every index whose name is not in
\* the catalog as it was, its name not in removed.
C3_ForeignIndexesUntouched ==
    \A p \in Procs :
        (Returned(p, "remove", TRUE) /\ results[p].errors = <<>>) =>
            /\ \A n \in CatalogNames : sqlite_master[n] = "absent"
            /\ \A n \in Names \ CatalogNames :
                  /\ sqlite_master[n] = before[p][n]
                  /\ n \notin ToSet(results[p].removed)

\* C3 amended: remove_indexes(confirm=True) issues a DROP for every index that
\* check_existing_indexes lists, catalog entry or not; each one whose DROP did
\* not fail is gone and named in removed, each failed one is named in errors
\* and kept, and only the indexes SQLite names sqlite_... are never touched.
C3_RemovesEveryListedIndex ==
    \A p \in Procs :
        Returned(p, "remove", TRUE) =>
            LET listed == check_existing_indexes(before[p])
                gone == ToSet(results[p].removed)
                kept == ToSet(results[p].errors)
            IN  /\ gone \cup kept = listed
                /\ gone \cap kept = {}
                /\ \A n \in gone : sqlite_master[n] = "absent"
                /\ \A n \in Names \ gone : sqlite_master[n] = before[p][n]

C3_Witness ==
    \E p \in Procs :
        /\ Returned(p, "remove", TRUE)
        /\ before[p]["idx_custom"] = "other"
        /\ sqlite_master["idx_custom"] = "absent"
        /\ "idx_custom" \in ToSet(results[p].removed)
        /\ Catalog[1] \in ToSet(results[p].removed)
        /\ sqlite_master["sqlite_autoindex_metadata_full_1"] = "other"

\* C4: a create_indexes call that returned has treated every catalog entry as
\* follows: an entry that existed, with force false, is under skipped and
\* untouched; any other entry was created or failed, and one reported under
\* created was really built and now has the catalog's definition - also an
\* entry that existed when force is true (re-created).
C4_SkipOrRecreate ==
    \A p \in Procs :
        (pc[p] = "returned" /\ op[p].kind = "create") =>
            \A n \in CatalogNames :
                IF before[p][n] # "absent" /\ ~op[p].flag
                THEN /\ n \in ToSet(results[p].skipped)
                     /\ sqlite_master[n] = before[p][n]
                ELSE /\ n \in ToSet(results[p].created) \cup ToSet(results[p].errors)
                     /\ n \in ToSet(results[p].created) =>
                           /\ sqlite_master[n] = "catalog"
                           /\ \E j \in Events(p, "CREATE") :
                                 /\ trace[p][j].name = n
                                 /\ trace[p][j].effect = "built"

\* C5: a CREATE INDEX that fails is recorded under errors for its entry and
\* never makes create_indexes raise; the entries after it are still processed,
\* so that once the loop is left every catalog entry is under created,
\* skipped or errors.
C5_CreateFailureDoesNotAbort ==
    \A p \in Procs :
        op[p].kind = "create" =>
            LET failed == {j \in Events(p, "CREATE") : ~trace[p][j].ok}
                done == ToSet(results[p].created) \cup ToSet(results[p].skipped)
                            \cup ToSet(results[p].errors)
            IN  /\ \A j \in failed : trace[p][j].name \in ToSet(results[p].errors)
                /\ pc[p] = "raised" => trace[p][Len(trace[p])].stmt # "CREATE"
                /\ (failed # {} /\ pc[p] # "loop") => done = CatalogNames
                /\ pc[p] = "returned" => done = CatalogNames

C5_Witness ==
    \E p \in Procs :
        /\ pc[p] = "returned" /\ op[p].kind = "create"
        /\ results[p].errors = <<Catalog[1]>>
        /\ Catalog[Len(Catalog)] \in ToSet(results[p].created)

\* C6: in a create_indexes call ANALYZE metadata_full is executed at most
\* once, only after every catalog entry has been skipped, created or failed
\* and a commit has followed them, and a call that returns has executed it
\* exactly once - whatever was skipped and whatever failed.
C6_AnalyzeOnceAfterCatalog ==
    \A p \in Procs :
        op[p].kind = "create" =>
            /\ Cardinality(Events(p, "ANALYZE")) <= 1
            /\ pc[p] = "returned" => Cardinality(Events(p, "ANALYZE")) = 1
            /\ \A a \in Events(p, "ANALYZE") :
                  LET entries == Events(p, "SKIP") \cup Events(p, "CREATE") IN
                  /\ {trace[p][j].name : j \in entries} = CatalogNames
                  /\ \E c \in Events(p, "COMMIT") :
                        /\ c < a
                        /\ trace[p][c].ok
                        /\ \A j \in entries : j < c

C6_Witness ==
    \E p \in Procs :
        /\ pc[p] = "returned" /\ op[p].kind = "create"
        /\ results[p].created = <<>>
        /\ results[p].skipped # <<>>
        /\ results[p].errors # <<>>
        /\ Cardinality(Events(p, "ANALYZE")) = 1

\* list holds entries of the catalog only, each at most once, in the order
\* of self.indexes
InCatalogOrder(list) == SelectSeq(Catalog, LAMBDA n : n \in ToSet(list)) = list

\* C23: whenever create_indexes returns, its result partitions the catalog:
\* every catalog entry is named in exactly one of created, skipped and errors,
\* exactly once, each list is in catalog order, and no other name appears.
C23_ResultPartitionsCatalog ==
    \A p \in Procs :
        (pc[p] = "returned" /\ op[p].kind = "create") =>
            LET created == results[p].created
                skipped == results[p].skipped
                errors == results[p].errors
            IN  /\ InCatalogOrder(created)
                /\ InCatalogOrder(skipped)
                /\ InCatalogOrder(errors)
                /\ ToSet(created) \cup ToSet(skipped) \cup ToSet(errors) = CatalogNames
                /\ ToSet(created) \cap ToSet(skipped) = {}
                /\ ToSet(created) \cap ToSet(errors) = {}
                /\ ToSet(skipped) \cap ToSet(errors) = {}
                /\ Len(created) + Len(skipped) + Len(errors) = Len(Catalog)

C23_Witness ==
    \E p \in Procs :
        /\ Returned(p, "create", FALSE)
        /\ results[p].skipped = <<Catalog[1]>>
        /\ results[p].created # <<>>
        /\ Len(results[p].created) + Len(results[p].errors) = Len(Catalog) - 1

\* C24: with one maintenance process, a create_indexes call that returned
\* with no errors, whatever its force flag and whatever indexes it found,
\* leaves every catalog name in check_existing_indexes(); a
\* remove_indexes(confirm=True) call that returned with no errors leaves no
\* catalog name in check_existing_indexes().
C24_CleanRunReachesItsGoal ==
    \A p \in Procs :
        (pc[p] = "returned" /\ results[p].errors = <<>>) =>
            /\ op[p].kind = "create" =>
                  CatalogNames \subseteq check_existing_indexes(sqlite_master)
            /\ op[p] = [kind |-> "remove", flag |-> TRUE] =>
                  CatalogNames \cap check_existing_indexes(sqlite_master) = {}

C24_Witness ==
    \E p \in Procs :
        /\ Returned(p, "remove", TRUE)
        /\ results[p].errors = <<>>
        /\ CatalogNames \subseteq check_existing_indexes(before[p])
        /\ prev[p] = [kind |-> "create", flag |-> TRUE, returned |-> TRUE, clean |-> TRUE]
        /\ CatalogNames \cap check_existing_indexes(sqlite_master) = {}

----------------------------------------------------------------------------
(* Properties of the query engine, checked under SpecSearch *)

\* a request was answered with the result of a search
Searched == request # NoRequest /\ response.status = 200 /\ response.searched

\* the criteria the handler of the request passed to search_stories
Criteria == IF request.route = "browse" THEN << >> ELSE QueryParams(request.args)

RowIds(found) == [k \in 1..Len(found) |-> found[k].rowid]

\* the pages 1..last of a search, one after the other
AllPages(table, order, query_params, per_page, last) ==
    LET cat[p \in 0..last] ==
            IF p = 0 THEN << >>
            ELSE cat[p - 1]
                   \o RowIds(search_stories(table, order, query_params, p, per_page).results)
    IN  cat[last]

\* C7: for the criteria and the page size (>= 1) of any answered search, the
\* pages 1 .. ceil(total_count / per_page) put one after the other hold
\* total_count records, no rowid twice, and are the whole ordered result of
\* the query: every matching record once.
C7_PagesPartitionTheResult ==
    (Searched /\ response.per_page >= 1) =>
        LET last == CeilDiv(response.total_count, response.per_page)
            whole == RowIds(search_stories(rows, scan_order, Criteria, 1, -1).results)
            cat == AllPages(rows, scan_order, Criteria, response.per_page, last)
        IN  /\ Len(cat) = response.total_count
            /\ \A i, j \in 1..Len(cat) : cat[i] = cat[j] => i = j
            /\ cat = whole

C7_Witness ==
    /\ Searched
    /\ response.per_page = 1
    /\ response.total_count = 2
    /\ response.total_pages = 2
    /\ rows[1].Updated = rows[2].Updated
    /\ scan_order = <<2, 1>>

\* C8: the total_count of any answered search is the number of rows that
\* satisfy the WHERE of the page query with the page query's own bound values,
\* whatever page and per_page the request asked for.
C8_TotalCountIsTheMatchedSet ==
    Searched =>
        LET clauses == Clauses(Criteria)
            params == PageParams(clauses, response.page, response.per_page)
        IN  response.total_count =
                Cardinality({r \in 1..Len(rows) :
                                EvalWhere(WhereConditions(clauses), params, rows[r])})

C8_Witness ==
    /\ Searched
    /\ DOMAIN Criteria = {"min_words", "max_words"}
    /\ response.page = 2
    /\ response.per_page = 1
    /\ response.total_count = 1
    /\ response.data = << >>
    /\ Len(rows) = 2

\* C9: a search request asking for more than 100 records per page is answered
\* as the same request asking for 100 is - same records, same pagination
\* values - and no answer holds more than 100 records.
C9_PerPageClampedEverywhere ==
    request # NoRequest =>
        /\ Len(response.data) <= MAX_PER_PAGE
        /\ ( /\ request.route \in {"api", "web"}
             /\ request.args["per_page"] # {}
             /\ IntOf(Val(request.args["per_page"])).ok
             /\ IntOf(Val(request.args["per_page"])).val > MAX_PER_PAGE )
           => response = Handle(request.route, rows, scan_order,
                                [request.args EXCEPT !["per_page"] = {<<"1", "0", "0">>}])

\* the bound a request gives for word_count, if it gives one that is a number
WordBound(key) ==
    IF key \in DOMAIN Criteria /\ IntOf(Criteria[key]).ok
    THEN {IntOf(Criteria[key]).val} ELSE {}

\* C10: a search with numeric min_words and max_words is answered without
\* error; with min_words <= max_words every record returned has a word_count,
\* between the two bounds, and total_count counts exactly the rows whose
\* word_count is present and min_words <= word_count <= max_words; with
\* min_words > max_words the page is empty and total_count is 0.
C10_WordRangeInclusive ==
    ( /\ request # NoRequest
      /\ request.route \in {"api", "web"}
      /\ WordBound("min_words") # {}
      /\ WordBound("max_words") # {} )
    => LET lo == Val(WordBound("min_words"))
           hi == Val(WordBound("max_words"))
           inside(w) == w # {} /\ lo <= Val(w) /\ Val(w) <= hi
       IN  /\ Searched
           /\ \A k \in 1..Len(response.data) : inside(response.data[k].word_count)
           /\ response.total_count =
                  Cardinality({r \in 1..Len(rows) : inside(rows[r].word_count)})
           /\ lo > hi => (response.data = << >> /\ response.total_count = 0)

C10_Witness ==
    /\ Searched
    /\ WordBound("min_words") = {2}
    /\ WordBound("max_words") = {2}
    /\ Len(response.data) = 1
    /\ response.data[1].word_count = {2}
    /\ \E r \in 1..Len(rows) : rows[r].word_count = {}

\* the word bounds of the request that are present and are not integers
MalformedBounds ==
    {key \in {"min_words", "max_words"} :
        key \in DOMAIN Criteria /\ ~IntOf(Criteria[key]).ok}

\* C12: a search request whose min_words or max_words is present and is not
\* an integer is answered with an error, never with a result: search_stories
\* raises before it has executed any query, and the handler answers 500 with
\* no records.
C12_MalformedBoundIsAnError ==
    ( /\ request # NoRequest
      /\ request.route \in {"api", "web"}
      /\ MalformedBounds # {} )
    => /\ response.status = 500
       /\ ~response.searched
       /\ response.data = << >>
       /\ LET found == search_stories(rows, scan_order, Criteria,
                                      DEFAULT_PAGE, DEFAULT_PER_PAGE)
          IN  found.raised /\ found.executed = 0

C12_Witness ==
    /\ request # NoRequest
    /\ request.route = "api"
    /\ MalformedBounds = {"min_words"}
    /\ DOMAIN Criteria = {"min_words"}
    /\ response.status = 500
    /\ Len(rows) = 2
    /\ \A r \in 1..Len(rows) : rows[r].word_count = {2}

\* the request reaches search_stories once its page and per_page are read
ReachesSearch ==
    \/ request.route \in {"api", "browse"}
    \/ /\ request.route = "web"
       /\ (DOMAIN Criteria # {} \/ request.args["show_all"] # {})

\* C13: a search request whose page number is an integer <= 0 is answered
\* with an error; it is never answered as a search, and so never with the
\* records of page 1.
C13_NonPositivePageIsAnError ==
    ( /\ request # NoRequest
      /\ ReachesSearch
      /\ request.args["page"] # {}
      /\ IntOf(Val(request.args["page"])).ok
      /\ IntOf(Val(request.args["page"])).val <= 0 )
    => /\ response.status = 500
       /\ ~response.searched
       /\ response.data = << >>

\* C19: a request that reaches the query engine works on a connection of its
\* own, the only one open while it is served, and close_db releases it when
\* the request ends, whatever the handler answered: once a request has ended,
\* with a result or with an error, nothing is left in g and no connection is
\* open.
C19_SessionReleasedOnEveryExit ==
    /\ request # NoRequest =>
          /\ connections = g
          /\ OpensDb(request.route, request.args) <=> Cardinality(g) = 1
    /\ request = NoRequest => (g = {} /\ connections = {})
    /\ ended # NoRequest => (request = NoRequest /\ g = {} /\ connections = {})

C19_Witness ==
    /\ ended # NoRequest
    /\ ended.status = 500
    /\ ended.opened
    /\ g = {}
    /\ connections = {}

----------------------------------------------------------------------------
(* Properties of the query engine on text criteria, checked under SpecMatch *)

\* the place of an Updated value in ORDER BY Updated DESC; NULL is below all
UpdatedRank(updated) == IF updated = {} THEN 0 ELSE Val(updated)

\* C11: a search with no criteria returns its records by Updated descending -
\* each record's Updated is at least the next one's, records without Updated
\* last - and its total_count is the number of rows of metadata_full.
C11_NoCriteriaNewestFirstCountsAll ==
    (Searched /\ DOMAIN Criteria = {}) =>
        /\ \A k \in 1..(Len(response.data) - 1) :
              UpdatedRank(response.data[k].Updated)
                  >= UpdatedRank(response.data[k + 1].Updated)
        /\ response.total_count = Len(rows)

C11_Witness ==
    /\ Searched
    /\ request.route = "browse"
    /\ Len(rows) = 2
    /\ rows[1].Updated = {1}
    /\ rows[2].Updated = {2}
    /\ RowIds(response.data) = <<2, 1>>
    /\ response.total_count = 2

LowerText(text) == [k \in 1..Len(text) |-> Lower(text[k])]

\* v occurs in text as it is written, letters compared without case
ContainsLiteral(text, v) ==
    \E i \in 0..(Len(text) - Len(v)) :
        LowerText(SubSeq(text, i + 1, i + Len(v))) = LowerText(v)

\* the rows a search must match when key is its only criterion
LiteralHits(key) ==
    {r \in 1..Len(rows) :
        /\ rows[r][Column[key]] # {}
        /\ ContainsLiteral(Val(rows[r][Column[key]]), Criteria[key])}

\* C14: a search by one substring criterion (title, author, category or
\* genre) with value v matches exactly the rows whose field contains v as a
\* literal substring, letter case ignored - also when v holds '%' or '_'.
C14_SubstringIsLiteral ==
    \A key \in ToSet(LikeKeys) :
        (Searched /\ DOMAIN Criteria = {key}) =>
            /\ response.total_count = Cardinality(LiteralHits(key))
            /\ \A k \in 1..Len(response.data) :
                  response.data[k].rowid \in LiteralHits(key)

\* the rows whose field is exactly the value of the criterion key
ExactHits(key) ==
    {r \in 1..Len(rows) :
        /\ rows[r][Column[key]] # {}
        /\ Val(rows[r][Column[key]]) = Criteria[key]}

\* C15: a search by one exact-match criterion (language, status or rating)
\* with value v matches exactly the rows whose field is v, character for
\* character: a row whose field differs from v in letter case only is not
\* counted and not returned.
C15_ExactMatchIsCaseSensitive ==
    \A key \in ToSet(EqualKeys) :
        (Searched /\ DOMAIN Criteria = {key}) =>
            /\ response.total_count = Cardinality(ExactHits(key))
            /\ \A k \in 1..Len(response.data) :
                  response.data[k].rowid \in ExactHits(key)
            /\ Len(response.data) = Cardinality(ExactHits(key))
                  \/ Len(response.data) = response.per_page

C15_Witness ==
    /\ Searched
    /\ DOMAIN Criteria = {"language"}
    /\ Criteria["language"] = <<"e", "n">>
    /\ Len(rows) = 2
    /\ rows[1].Language = {<<"E", "N">>}
    /\ rows[2].Language = {<<"e", "n">>}
    /\ RowIds(response.data) = <<2>>
    /\ response.total_count = 1

----------------------------------------------------------------------------
(* Properties of the statistics, checked under SpecStats *)

\* the limit a request for top authors passes to get_top_authors, if any
LimitOf ==
    IF request.route = "top_authors" THEN {TOP_AUTHORS_PAGE}
    ELSE IF request.route # "authors" THEN {}
    ELSE IF request.args.limit = {} THEN {DEFAULT_LIMIT}
    ELSE IF IntOf(Val(request.args.limit)).ok
         THEN {IntOf(Val(request.args.limit)).val} ELSE {}

\* what get_top_authors returns to the request being served
TopAuthorsOfRequest == get_top_authors(rows, scan_order, Val(LimitOf))

StoriesOf(author) ==
    {r \in 1..Len(rows) : rows[r].Author = {author}}

C17_AuthorAverageOverPositiveCounts ==
    (request # NoRequest /\ LimitOf # {}) =>
        LET top == TopAuthorsOfRequest IN
        \A k \in 1..Len(top) :
            LET mine == StoriesOf(top[k].Author)
                counted == {r \in mine : rows[r].word_count # {}
                                         /\ Val(rows[r].word_count) > 0}
                present == {r \in mine : rows[r].word_count # {}}
            IN  /\ counted # {} =>
                      /\ top[k].avg_words # {}
                      /\ Val(top[k].avg_words).num * Cardinality(counted)
                             = SumWords(rows, counted) * Val(top[k].avg_words).den
                /\ present # {} => top[k].total_words = {SumWords(rows, present)}
                /\ present = {} => top[k].total_words = {}

\* the rows with a word_count above zero, and the rows with any word_count
PositiveCounts == {r \in 1..Len(rows) : rows[r].word_count # {}
                                        /\ Val(rows[r].word_count) > 0}

PresentCounts == {r \in 1..Len(rows) : rows[r].word_count # {}}

\* C18: get_basic_stats returns as avg_words the mean of word_count over the
\* rows with word_count > 0 cut to an integer, 0 when there is no such row,
\* and as total_words the sum of word_count over all rows that have one,
\* zeros included (NULL when no row has one).
C18_BasicStatsAverageAndTotal ==
    (request # NoRequest /\ request.route = "basic") =>
        /\ response.status = 200
        /\ PositiveCounts # {} =>
              LET mean == response.data.avg_words
                  n == Cardinality(PositiveCounts)
                  sum == SumWords(rows, PositiveCounts)
              IN  mean * n <= sum /\ sum < (mean + 1) * n
        /\ PositiveCounts = {} => response.data.avg_words = 0
        /\ PresentCounts # {} =>
              response.data.total_words = {SumWords(rows, PresentCounts)}
        /\ PresentCounts = {} => response.data.total_words = {}

C18_Witness ==
    /\ request # NoRequest
    /\ request.route = "basic"
    /\ Len(rows) = 3
    /\ {rows[r].word_count : r \in 1..3} = {{0}, {1}, {2}}
    /\ response.data.avg_words = 1
    /\ response.data.total_words = {3}

----------------------------------------------------------------------------
(* Properties of the query engine beside the index manager, checked under
   SpecMaint *)

\* C20: whatever catalog indexes exist and whatever create_indexes or
\* remove_indexes call is under way, a search is answered as it is answered
\* on the same rows with no index and no maintenance: the same records in the
\* same order, the same total_count and pagination values.
C20_ResultsIndependentOfIndexes ==
    Searched =>
        response = Handle(request.route, rows,
                          [k \in 1..Len(rows) |-> k], request.args)

----------------------------------------------------------------------------
(* Properties of the command line, checked under SpecCli *)

\* the command given on the command line, as main reads it
Command == IF Len(cli.argv) < 1 THEN <<>> ELSE lower(cli.argv[1])

\* help was asked for, by name or by giving no command
HelpRequest == Len(cli.argv) < 1 \/ Command \in HelpCommands

\* the work of the command was done: the operations of DatabaseIndexer it
\* stands for all returned, with no recorded error
Succeeded(p) ==
    CASE Command = CREATE_INDEXES ->
            Returned(p, "create", FALSE) /\ results[p].errors = <<>>
      [] Command = REMOVE_INDEXES ->
            Returned(p, "remove", TRUE) /\ results[p].errors = <<>>
      [] Command = ANALYZE ->
            /\ Returned(p, "check_existing_indexes", FALSE)
            /\ prev[p].kind = "analyze_current_performance"
            /\ prev[p].returned
      [] OTHER -> FALSE

\* C21: manage.py exits with 0 exactly when the command succeeded or help was
\* asked for, and with 1 otherwise: create-indexes with a recorded error, a
\* missing database file, an unknown command and any command function that
\* returned False exit 1; help, --help and -h exit 0.
C21_ExitCodeTellsSuccess ==
    cli.pc = "exited" =>
        \A p \in Procs :
            /\ cli.exit \in {{0}, {1}}
            /\ cli.exit = {0} <=> (HelpRequest \/ Succeeded(p))
            /\ (Command = CREATE_INDEXES /\ results[p].errors # <<>>) => cli.exit = {1}
            /\ cli.db_exists = {FALSE} => cli.exit = {1}
            /\ (Len(cli.argv) >= 1 /\ Command \notin Commands) => cli.exit = {1}
            /\ cli.success = {FALSE} => cli.exit = {1}
            /\ Command \in HelpCommands => cli.exit = {0}

C21_Witness ==
    \E p \in Procs :
        /\ cli.pc = "exited"
        /\ Command = CREATE_INDEXES
        /\ results[p].created # <<>>
        /\ results[p].errors # <<>>
        /\ cli.exit = {1}

\* the operator's answer, lower-cased and stripped, is exactly 'yes'
Affirmed == cli.answer # {} /\ Strip(lower(Val(cli.answer))) = YES

\* C22: the remove-indexes command calls DatabaseIndexer.remove_indexes only
\* when the operator's answer, lower-cased and stripped, is exactly 'yes';
\* with any other answer, or none, no statement is executed and the indexes
\* of metadata_full are what they were.
C22_RemoveOnlyBehindTheGate ==
    \A p \in Procs :
        /\ op[p].kind = "remove" => (Command = REMOVE_INDEXES /\ Affirmed)
        /\ (Command = REMOVE_INDEXES /\ ~Affirmed) =>
              /\ op[p] = NoOp
              /\ trace[p] = <<>>
              /\ sqlite_master = before[p]

C22_Witness ==
    \E p \in Procs :
        /\ cli.pc = "exited"
        /\ Command = REMOVE_INDEXES
        /\ cli.answer = {<<"y">>}
        /\ op[p] = NoOp
        /\ \A n \in Names : sqlite_master[n] # "absent"

----------------------------------------------------------------------------
(* Properties of concurrent maintenance, checked under SpecConc *)

\* the names a run of create_indexes reports as present
Reported(p) == ToSet(results[p].created) \cup ToSet(results[p].skipped)

\* C25: when a create_indexes(force=False) run returns while another
\* create_indexes or remove_indexes(confirm=True) runs beside it, every name
\* it reports under created or skipped is materialized at that moment, and no
\* name is under created in the results of both runs.
C25_ReportedIndexesAreMaterialized ==
    [][ \A p \in ConcProcs :
            (op[p].kind = "create" /\ pc[p] # "returned" /\ pc'[p] = "returned") =>
                /\ \A n \in Reported(p) : sqlite_master'[n] # "absent"
                /\ \A q \in ConcProcs \ {p} :
                      (op[q].kind = "create" /\ pc[q] = "returned") =>
                          ToSet(results[p].created) \cap ToSet(results[q].created) = {}
      ]_vars

----------------------------------------------------------------------------
(* Properties of the operations of DatabaseIndexer, checked under SpecOps *)

\* control has left the operation the process called
Left(p) == pc[p] \in {"returned", "raised"}

\* C26: every operation of DatabaseIndexer has closed each connection it
\* opened when control leaves it, whether it returns or a statement raises.
C26_ConnectionClosedOnEveryExit ==
    \A p \in Procs : Left(p) => conn[p] = {}

====
